---- MODULE Spec2Model ----
(***************************************************************************)
(* A model of prismatic/serialization.py: the converters between JSON      *)
(* values and model values, the Field / MapField serializers that bind a   *)
(* model attribute, and the root Serializer that walks a schema mapping.   *)
(*                                                                         *)
(* Python values are tagged records.  A string is a sequence of one-       *)
(* character strings, so that str.strip, int(), isoformat and strptime are *)
(* computed character by character.                                        *)
(***************************************************************************)
EXTENDS Integers, Sequences, FiniteSets, TLC

VARIABLES
  schema,      \* the mapping the Serializer was built from (fixed after construction)
  heap,        \* object id -> attribute name -> value: the model objects
  lastCall,    \* the last public call made: its name and arguments
  lastExc,     \* the exception that call raised, or NoExc
  lastRet,     \* the value that call returned, None when it raised
  preHeap,     \* the heap as it was when that call started
  trace,       \* the converter / attribute events of that call, in order
  cConv,       \* converter under test
  cIn,         \* the value handed to it
  cOp,         \* which conversion was applied last
  cOut         \* its outcome

vars == <<schema, heap, lastCall, lastExc, lastRet, preHeap, trace, cConv, cIn, cOp, cOut>>

(***************************************************************************)
(* Python values                                                           *)
(***************************************************************************)
None == [t |-> "null"]
Str(s) == [t |-> "str", s |-> s]
IntV(i) == [t |-> "int", i |-> i]
\* the double nearest to n / 10^k (k >= 1 means n is not a multiple of 10)
FloatV(n, k) == [t |-> "float", n |-> n, k |-> k]
FloatInf == [t |-> "inf"]
BoolV(b) == [t |-> "bool", b |-> b]
IsNone(x) == x.t = "null"
ListV(l) == [t |-> "list", l |-> l]
MapV(m) == [t |-> "map", m |-> m]
\* decimal.Decimal: n / 10^k exactly, or (bin) the exact value of the double
\* nearest to n / 10^k, which differs from n / 10^k when that is not dyadic
DecV(n, k, bin) == [t |-> "dec", n |-> n, k |-> k, bin |-> bin]
DecInf == [t |-> "decinf"]
DateV(y, m, d) == [t |-> "date", y |-> y, m |-> m, d |-> d]
DateTimeV(y, m, d, H, M, S, f) ==
  [t |-> "datetime", y |-> y, m |-> m, d |-> d, H |-> H, M |-> M, S |-> S, f |-> f]

\* outcomes of a call: a returned value or a raised exception
Ok(v) == [ok |-> TRUE, v |-> v]
Exc(type, msg, arg) == [type |-> type, msg |-> msg, arg |-> arg]
Raise(type, msg) == [ok |-> FALSE, exc |-> Exc(type, msg, {})]
NoExc == Exc("none", "", {})

(***************************************************************************)
(* Characters and strings                                                  *)
(***************************************************************************)
DigitChars == <<"0", "1", "2", "3", "4", "5", "6", "7", "8", "9">>
IsDigit(c) == \E i \in 1..10 : DigitChars[i] = c
DigitVal(c) == (CHOOSE i \in 1..10 : DigitChars[i] = c) - 1
Whitespace == {" ", "\t", "\n", "\r"}

SetMin(S) == CHOOSE x \in S : \A y \in S : x <= y
SetMax(S) == CHOOSE x \in S : \A y \in S : x >= y
Abs(n) == IF n < 0 THEN -n ELSE n

RECURSIVE Pow10(_)
Pow10(k) == IF k = 0 THEN 1 ELSE 10 * Pow10(k - 1)

\* str.strip()
Strip(s) ==
  LET idx == {i \in 1..Len(s) : s[i] \notin Whitespace}
  IN IF idx = {} THEN <<>> ELSE SubSeq(s, SetMin(idx), SetMax(idx))

\* the decimal digits of n >= 0, without leading zeros
RECURSIVE Digits(_)
Digits(n) ==
  IF n < 10 THEN <<DigitChars[n + 1]>>
  ELSE Digits(n \div 10) \o <<DigitChars[(n % 10) + 1]>>

\* "%0<w>d" % n for n >= 0
RECURSIVE ZeroPad(_, _)
ZeroPad(n, w) ==
  IF w = 0 THEN <<>> ELSE ZeroPad(n \div 10, w - 1) \o <<DigitChars[(n % 10) + 1]>>

\* the value of a sequence of digit characters
RECURSIVE DigitsVal(_)
DigitsVal(s) ==
  IF s = <<>> THEN 0
  ELSE 10 * DigitsVal(SubSeq(s, 1, Len(s) - 1)) + DigitVal(s[Len(s)])

Sign(n) == IF n < 0 THEN <<"-">> ELSE <<>>

\* str(int)
IntStr(i) == Sign(i) \o Digits(Abs(i))

\* repr(float) of the double nearest n / 10^k, in the range Python prints positionally
FloatStr(n, k) ==
  Sign(n) \o Digits(Abs(n) \div Pow10(k)) \o <<".">>
    \o (IF k = 0 THEN <<"0">> ELSE ZeroPad(Abs(n) % Pow10(k), k))

\* the characters of a mapping key: the keys used here are one character long
KeyChars(key) == <<key>>

\* the iteration order of a dict: its keys in insertion order (one fixed order here)
DictKeys(m) ==
  CHOOSE q \in [1..Cardinality(DOMAIN m) -> DOMAIN m] :
    \A i, j \in DOMAIN q : i # j => q[i] # q[j]

RECURSIVE JoinReprs(_, _)
RECURSIVE PyRepr(_)
\* repr(x) of a JSON value
PyRepr(x) ==
  CASE x.t = "null" -> <<"N", "o", "n", "e">>
    [] x.t = "str" -> <<"'">> \o x.s \o <<"'">>
    [] x.t = "int" -> IntStr(x.i)
    [] x.t = "float" -> FloatStr(x.n, x.k)
    [] x.t = "inf" -> <<"i", "n", "f">>
    [] x.t = "bool" -> IF x.b THEN <<"T", "r", "u", "e">> ELSE <<"F", "a", "l", "s", "e">>
    [] x.t = "list" -> <<"[">> \o JoinReprs([i \in 1..Len(x.l) |-> PyRepr(x.l[i])], 1) \o <<"]">>
    [] x.t = "map" ->
         LET ks == DictKeys(x.m)
         IN <<"{">>
            \o JoinReprs([i \in DOMAIN ks |->
                 <<"'">> \o KeyChars(ks[i]) \o <<"'", ":", " ">> \o PyRepr(x.m[ks[i]])], 1)
            \o <<"}">>

\* ', '.join(parts[i:])
JoinReprs(parts, i) ==
  IF i > Len(parts) THEN <<>>
  ELSE parts[i] \o (IF i < Len(parts) THEN <<",", " ">> ELSE <<>>) \o JoinReprs(parts, i + 1)

\* str(x)
PyStr(x) == IF x.t = "str" THEN x.s ELSE PyRepr(x)

(***************************************************************************)
(* Python's == on JSON values (bool and the numbers compare by value)      *)
(***************************************************************************)
IsNumeric(x) == x.t \in {"int", "float", "bool"}
\* a numeric value as <<n, k>>, meaning n / 10^k
NumOf(x) ==
  CASE x.t = "int" -> <<x.i, 0>>
    [] x.t = "bool" -> <<IF x.b THEN 1 ELSE 0, 0>>
    [] x.t = "float" -> <<x.n, x.k>>

RECURSIVE PyEq(_, _)
PyEq(a, b) ==
  IF IsNumeric(a) /\ IsNumeric(b)
    THEN NumOf(a)[1] * Pow10(NumOf(b)[2]) = NumOf(b)[1] * Pow10(NumOf(a)[2])
  ELSE IF a.t # b.t THEN FALSE
  ELSE CASE a.t = "str" -> a.s = b.s
         [] a.t = "list" ->
              /\ Len(a.l) = Len(b.l)
              /\ \A i \in 1..Len(a.l) : PyEq(a.l[i], b.l[i])
         [] a.t = "map" ->
              /\ DOMAIN a.m = DOMAIN b.m
              /\ \A key \in DOMAIN a.m : PyEq(a.m[key], b.m[key])
         [] OTHER -> a = b

(***************************************************************************)
(* datetime.strptime                                                       *)
(***************************************************************************)
AllDigits(s, pos, n) ==
  /\ pos + n - 1 <= Len(s)
  /\ \A i \in pos..(pos + n - 1) : IsDigit(s[i])

\* the two characters at pos as a number, when both are digits
Two(s, pos) == 10 * DigitVal(s[pos]) + DigitVal(s[pos + 1])

\* whether the length-2 alternatives of a directive's pattern match at pos
TwoMatches(d, s, pos) ==
  /\ AllDigits(s, pos, 2)
  /\ CASE d = "%m" -> Two(s, pos) \in 1..12
        [] d = "%d" -> Two(s, pos) \in 1..31
        [] d = "%H" -> Two(s, pos) \in 0..23
        [] d = "%M" -> Two(s, pos) \in 0..59
        [] d = "%S" -> Two(s, pos) \in 0..61

\* whether the length-1 alternative matches at pos
OneMatches(d, s, pos) ==
  /\ AllDigits(s, pos, 1)
  /\ (d \in {"%m", "%d"} => DigitVal(s[pos]) # 0)

\* the lengths a directive may consume at pos, in the order its pattern tries them
Candidates(d, s, pos) ==
  CASE d = "%Y" -> IF AllDigits(s, pos, 4) THEN <<4>> ELSE <<>>
    [] d = "%f" ->
         LET run == {n \in 1..6 : AllDigits(s, pos, n)}
         IN [i \in 1..Cardinality(run) |-> Cardinality(run) + 1 - i]
    [] OTHER ->
         (IF TwoMatches(d, s, pos) THEN <<2>> ELSE <<>>)
         \o (IF OneMatches(d, s, pos) THEN <<1>> ELSE <<>>)
         \o (IF d = "%d" /\ pos + 1 <= Len(s) /\ s[pos] = " "
                 /\ IsDigit(s[pos + 1]) /\ DigitVal(s[pos + 1]) # 0
              THEN <<2>> ELSE <<>>)

\* the number a directive reads from the text it matched
FieldVal(d, text) ==
  LET ds == SelectSeq(text, IsDigit)
  IN IF d = "%f" THEN DigitsVal(ds) * Pow10(6 - Len(ds)) ELSE DigitsVal(ds)

Directives == {"%Y", "%m", "%d", "%H", "%M", "%S", "%f"}
NoMatch == [ok |-> FALSE]

RECURSIVE Match(_, _, _, _)
RECURSIVE TryCandidates(_, _, _, _, _, _)
\* match format items fi.. against s from pos: the end position and the fields read
Match(fmt, fi, s, pos) ==
  IF fi > Len(fmt) THEN [ok |-> TRUE, end |-> pos, vals |-> <<>>]
  ELSE IF fmt[fi] \in Directives
    THEN TryCandidates(fmt, fi, s, pos, Candidates(fmt[fi], s, pos), 1)
  ELSE IF pos <= Len(s) /\ (s[pos] = fmt[fi] \/ (fmt[fi] = "T" /\ s[pos] = "t"))
    THEN Match(fmt, fi + 1, s, pos + 1)
  ELSE NoMatch

TryCandidates(fmt, fi, s, pos, cands, ci) ==
  IF ci > Len(cands) THEN NoMatch
  ELSE LET n == cands[ci]
           rest == Match(fmt, fi + 1, s, pos + n)
       IN IF rest.ok
            THEN [ok |-> TRUE, end |-> rest.end,
                  vals |-> rest.vals
                           \o <<<<fmt[fi], FieldVal(fmt[fi], SubSeq(s, pos, pos + n - 1))>>>>]
          ELSE TryCandidates(fmt, fi, s, pos, cands, ci + 1)

\* the field a directive read, or its default
Read(vals, d, default) ==
  IF \E i \in 1..Len(vals) : vals[i][1] = d
    THEN vals[CHOOSE i \in 1..Len(vals) : vals[i][1] = d][2]
  ELSE default

IsLeap(y) == (y % 4 = 0 /\ y % 100 # 0) \/ y % 400 = 0
DaysInMonth(y, m) ==
  IF m = 2 THEN (IF IsLeap(y) THEN 29 ELSE 28)
  ELSE IF m \in {4, 6, 9, 11} THEN 30 ELSE 31

FmtDate == <<"%Y", "-", "%m", "-", "%d">>
FmtDateTime == <<"%Y", "-", "%m", "-", "%d", "T", "%H", ":", "%M", ":", "%S">>
FmtDateTimeMicro == FmtDateTime \o <<".", "%f">>

\* datetime.strptime(x, fmt): a datetime, or TypeError / ValueError
strptime(x, fmt) ==
  IF x.t # "str" THEN Raise("TypeError", "strptime() argument 1 must be str")
  ELSE LET r == Match(fmt, 1, x.s, 1)
       IN IF ~r.ok THEN Raise("ValueError", "time data does not match format")
          ELSE IF r.end # Len(x.s) + 1 THEN Raise("ValueError", "unconverted data remains")
          ELSE LET y == Read(r.vals, "%Y", 1900)
                   m == Read(r.vals, "%m", 1)
                   d == Read(r.vals, "%d", 1)
                   S == Read(r.vals, "%S", 0)
               IN IF y < 1 \/ d > DaysInMonth(y, m) \/ S > 59
                    THEN Raise("ValueError", "value out of range")
                  ELSE Ok(DateTimeV(y, m, d, Read(r.vals, "%H", 0), Read(r.vals, "%M", 0),
                                    S, Read(r.vals, "%f", 0)))

\* date.isoformat()
DateIso(v) == ZeroPad(v.y, 4) \o <<"-">> \o ZeroPad(v.m, 2) \o <<"-">> \o ZeroPad(v.d, 2)

\* an isoformat that never prints the microseconds
DateTimeIso_seconds(v) ==
  DateIso(v) \o <<"T">> \o ZeroPad(v.H, 2) \o <<":">> \o ZeroPad(v.M, 2) \o <<":">>
    \o ZeroPad(v.S, 2)

\* datetime.isoformat(): the microseconds only when they are not zero
DateTimeIso(v) ==
  DateIso(v) \o <<"T">> \o ZeroPad(v.H, 2) \o <<":">> \o ZeroPad(v.M, 2) \o <<":">>
    \o ZeroPad(v.S, 2) \o (IF v.f = 0 THEN <<>> ELSE <<".">> \o ZeroPad(v.f, 6))

(***************************************************************************)
(* Converters.  A converter is a record: its class c and its fields.       *)
(***************************************************************************)
String(allow_empty) == [c |-> "String", allow_empty |-> allow_empty]
Boolean == [c |-> "Boolean"]
Integer == [c |-> "Integer"]
Decimal == [c |-> "Decimal"]
Date == [c |-> "Date"]
DateTime == [c |-> "DateTime"]
Array(converter) == [c |-> "Array", converter |-> converter]

SerializationError(msg) == Raise("SerializationError", msg)

\* try: r  except types as e: raise SerializationError(e)
ExceptAs(r, types) ==
  IF ~r.ok /\ r.exc.type \in types THEN SerializationError(r.exc.msg) ELSE r

\* bool(x)
PyBool(x) ==
  CASE x.t = "null" -> FALSE
    [] x.t = "bool" -> x.b
    [] x.t = "int" -> x.i # 0
    [] x.t = "float" -> x.n # 0
    [] x.t = "inf" -> TRUE
    [] x.t = "str" -> x.s # <<>>
    [] x.t = "list" -> x.l # <<>>
    [] x.t = "map" -> DOMAIN x.m # {}

\* int(x)
PyInt(x) ==
  CASE x.t = "int" -> Ok(IntV(x.i))
    [] x.t = "bool" -> Ok(IntV(IF x.b THEN 1 ELSE 0))
    [] x.t = "float" ->
         Ok(IntV(IF x.n >= 0 THEN x.n \div Pow10(x.k) ELSE -((-x.n) \div Pow10(x.k))))
    [] x.t = "inf" -> Raise("OverflowError", "cannot convert float infinity to integer")
    [] x.t = "str" ->
         LET s == Strip(x.s)
             signed == s # <<>> /\ s[1] \in {"+", "-"}
             ds == IF signed THEN SubSeq(s, 2, Len(s)) ELSE s
         IN IF ds # <<>> /\ \A i \in 1..Len(ds) : IsDigit(ds[i])
              THEN Ok(IntV(IF signed /\ s[1] = "-" THEN -DigitsVal(ds) ELSE DigitsVal(ds)))
            ELSE Raise("ValueError", "invalid literal for int() with base 10")
    [] OTHER -> Raise("TypeError", "int() argument must be a string or a real number")

RECURSIVE Pow5(_)
Pow5(k) == IF k = 0 THEN 1 ELSE 5 * Pow5(k - 1)

\* whether n / 10^k is a binary fraction, so that a double holds it exactly
Dyadic(n, k) == n % Pow5(k) = 0

\* decimal.Decimal.from_float(x): the exact value of the int or double x
from_float(x) ==
  CASE x.t = "int" -> Ok(DecV(x.i, 0, FALSE))
    [] x.t = "bool" -> Ok(DecV(IF x.b THEN 1 ELSE 0, 0, FALSE))
    [] x.t = "float" -> Ok(DecV(x.n, x.k, ~Dyadic(x.n, x.k)))
    [] x.t = "inf" -> Ok(DecInf)
    [] OTHER -> Raise("TypeError", "argument must be int or float")

String_model_to_json(self, model_value) == Str(PyStr(model_value))

String_json_to_model(self, json_value) ==
  LET model_value == Strip(PyStr(json_value))
  IN IF self.allow_empty \/ Len(model_value) > 0
       THEN Ok(Str(model_value))
     ELSE SerializationError("Empty string not allowed")

Boolean_model_to_json(self, model_value) == BoolV(PyBool(model_value))

Boolean_json_to_model(self, json_value) == Ok(BoolV(PyBool(json_value)))

Integer_model_to_json(self, model_value) == PyInt(model_value).v

Integer_json_to_model(self, json_value) ==
  ExceptAs(PyInt(json_value), {"ValueError", "TypeError"})

\* float(model_value): the double nearest to the decimal
Decimal_model_to_json(self, model_value) ==
  IF model_value.t = "decinf" THEN FloatInf ELSE FloatV(model_value.n, model_value.k)

Decimal_json_to_model(self, json_value) ==
  ExceptAs(from_float(json_value), {"TypeError"})

Date_model_to_json(self, model_value) == Str(DateIso(model_value))

\* datetime.strptime(json_value, '%Y-%m-%d').date()
Date_json_to_model(self, json_value) ==
  LET r == strptime(json_value, FmtDate)
  IN ExceptAs(IF r.ok THEN Ok(DateV(r.v.y, r.v.m, r.v.d)) ELSE r, {"ValueError"})

DateTime_model_to_json(self, model_value) == Str(DateTimeIso(model_value))

DateTime_json_to_model(self, json_value) ==
  LET first == strptime(json_value, FmtDateTimeMicro)
  IN IF ~first.ok /\ first.exc.type = "ValueError"
       THEN ExceptAs(strptime(json_value, FmtDateTime), {"ValueError"})
     ELSE first

\* what  for value in json_values  iterates over, or a TypeError
PyIter(x) ==
  CASE x.t = "list" -> Ok(x.l)
    [] x.t = "str" -> Ok([i \in 1..Len(x.s) |-> Str(<<x.s[i]>>)])
    [] x.t = "map" -> Ok([i \in 1..Cardinality(DOMAIN x.m) |-> Str(KeyChars(DictKeys(x.m)[i]))])
    [] OTHER -> Raise("TypeError", "object is not iterable")

RECURSIVE model_to_json(_, _)
RECURSIVE json_to_model(_, _)
RECURSIVE Comprehension(_, _, _)

\* [converter.json_to_model(value) for value in items[i:]]: the list, or the first exception
Comprehension(converter, items, i) ==
  IF i > Len(items) THEN Ok(<<>>)
  ELSE LET head == json_to_model(converter, items[i])
       IN IF ~head.ok THEN head
          ELSE LET tail == Comprehension(converter, items, i + 1)
               IN IF tail.ok THEN Ok(<<head.v>> \o tail.v) ELSE tail

Array_model_to_json(self, model_values) ==
  ListV([i \in 1..Len(model_values.l) |-> model_to_json(self.converter, model_values.l[i])])

Array_json_to_model(self, json_values) ==
  IF json_values.t = "str"
    THEN SerializationError("String cannot be converted to an array")
  ELSE LET it == PyIter(json_values)
           r == IF it.ok THEN Comprehension(self.converter, it.v, 1) ELSE it
       IN ExceptAs(IF r.ok THEN Ok(ListV(r.v)) ELSE r, {"TypeError"})

\* converter.model_to_json(model_value), on a value of the converter's model domain
model_to_json(converter, model_value) ==
  CASE converter.c = "String" -> String_model_to_json(converter, model_value)
    [] converter.c = "Boolean" -> Boolean_model_to_json(converter, model_value)
    [] converter.c = "Integer" -> Integer_model_to_json(converter, model_value)
    [] converter.c = "Decimal" -> Decimal_model_to_json(converter, model_value)
    [] converter.c = "Date" -> Date_model_to_json(converter, model_value)
    [] converter.c = "DateTime" -> DateTime_model_to_json(converter, model_value)
    [] converter.c = "Array" -> Array_model_to_json(converter, model_value)

\* converter.json_to_model(json_value): Ok(model value) or the exception raised
json_to_model(converter, json_value) ==
  CASE converter.c = "String" -> String_json_to_model(converter, json_value)
    [] converter.c = "Boolean" -> Boolean_json_to_model(converter, json_value)
    [] converter.c = "Integer" -> Integer_json_to_model(converter, json_value)
    [] converter.c = "Decimal" -> Decimal_json_to_model(converter, json_value)
    [] converter.c = "Date" -> Date_json_to_model(converter, json_value)
    [] converter.c = "DateTime" -> DateTime_json_to_model(converter, json_value)
    [] converter.c = "Array" -> Array_json_to_model(converter, json_value)

(***************************************************************************)
(* Serializers.  A schema mapping is a dict in insertion order: a sequence *)
(* of <<key, node>>; a node is a Field, a MapField, a Callable, a nested   *)
(* dict, or anything else (an invalid node).                               *)
(***************************************************************************)
Ref(o) == [t |-> "ref", o |-> o]

Field(model_attr, converter, readonly, createonly, nullable) ==
  [cls |-> "Field", model_attr |-> model_attr, converter |-> converter,
   readonly |-> readonly, createonly |-> createonly, nullable |-> nullable]
Dict(items) == [cls |-> "dict", items |-> items]
Serializer(mapping) == [cls |-> "Serializer", mapping |-> mapping]
\* MapField.__init__ wraps a mapping that is not a serializer into a Serializer
MapField(model_attr, mapping, nullable) ==
  [cls |-> "MapField", model_attr |-> model_attr, nullable |-> nullable,
   mapping |-> IF mapping.cls = "dict" THEN Serializer(mapping) ELSE mapping]
Callable(callable) == [cls |-> "Callable", callable |-> callable]
\* a str put where a schema node belongs, as in Serializer({'firstName': 'bar'})
Invalid(s) == [cls |-> "str", s |-> s]

IsAbstractSerializer(node) == node.cls \in {"Field", "MapField", "Callable", "Serializer"}

Keys(mapping) == {mapping.items[i][1] : i \in 1..Len(mapping.items)}
Node(mapping, key) ==
  mapping.items[CHOOSE i \in 1..Len(mapping.items) : mapping.items[i][1] = key][2]

\* events of a call, all of one shape
Event(ev, obj, attr, val, doc, known) ==
  [ev |-> ev, obj |-> obj, attr |-> attr, val |-> val, doc |-> doc, known |-> known]

\* the running state of a call: the heap, the events so far, the exception raised
Raised(st, exc) == [st EXCEPT !.exc = exc]
Log(st, e) == [st EXCEPT !.trace = Append(@, e)]

\* getattr(model, attr)
getattr(h, model, attr) ==
  IF attr \in DOMAIN h[model] THEN Ok(h[model][attr])
  ELSE Raise("AttributeError", "object has no attribute")

\* setattr(model, attr, value)
setattr(st, model, attr, value) ==
  Log([st EXCEPT !.heap[model][attr] = value], Event("setattr", model, attr, value, {}, {}))

\* Field.serialize(model): Ok(json value) or the AttributeError
Field_serialize(self, h, model) ==
  LET model_value == getattr(h, model, self.model_attr)
  IN IF ~model_value.ok THEN model_value
     ELSE IF ~IsNone(model_value.v)
       THEN Ok(model_to_json(self.converter, model_value.v))
     ELSE Ok(None)

\* the same branch with the converter applied to every value, null too
Field_assign_convert_null(self, st, model, json_value) ==
  LET conv == json_to_model(self.converter, json_value)
      st1 == Log(st, Event("json_to_model", model, self.model_attr, json_value, {}, {}))
  IN IF ~conv.ok THEN Raised(st1, conv.exc)
     ELSE IF IsNone(conv.v) /\ ~self.nullable
       THEN Raised(st1, Exc("SerializationError",
                             "Cannot assign null to non-nullable attribute",
                             {self.model_attr}))
     ELSE setattr(st1, model, self.model_attr, conv.v)

\* the branch of Field.deserialize that may write the attribute
Field_assign(self, st, model, json_value) ==
  LET conv == IF ~IsNone(json_value)
                THEN json_to_model(self.converter, json_value)
              ELSE Ok(None)
      st1 == IF ~IsNone(json_value)
               THEN Log(st, Event("json_to_model", model, self.model_attr, json_value, {}, {}))
             ELSE st
  IN IF ~conv.ok THEN Raised(st1, conv.exc)
     ELSE IF IsNone(conv.v) /\ ~self.nullable
       THEN Raised(st1, Exc("SerializationError",
                             "Cannot assign null to non-nullable attribute",
                             {self.model_attr}))
     ELSE setattr(st1, model, self.model_attr, conv.v)

\* a test in which create lifts readonly as it lifts createonly
Field_immutable_create_overrides(self, create) ==
  (self.readonly \/ self.createonly) /\ ~create

\* whether Field.deserialize takes the compare-only branch
Field_immutable(self, create) == self.readonly \/ (self.createonly /\ ~create)

\* a comparison of the two values once converted to model values
Field_differs_converted(self, json_value, old_json_value) ==
  LET new == IF IsNone(json_value) THEN Ok(None) ELSE json_to_model(self.converter, json_value)
      old == IF IsNone(old_json_value) THEN Ok(None)
             ELSE json_to_model(self.converter, old_json_value)
  IN new # old

\* json_value != old_json_value
Field_differs(self, json_value, old_json_value) == ~PyEq(json_value, old_json_value)

Field_deserialize(self, st, model, json_value, create) ==
  LET old_json_value == Field_serialize(self, st.heap, model)
      st0 == Log(st, Event("serialize", model, self.model_attr, None, {}, {}))
  IN IF ~old_json_value.ok THEN Raised(st0, old_json_value.exc)
     ELSE IF Field_immutable(self, create)
       THEN IF Field_differs(self, json_value, old_json_value.v)
              THEN Raised(st0, Exc("SerializationError",
                                   "Cannot change read-only attribute",
                                   {self.model_attr}))
            ELSE st0
     ELSE Field_assign(self, st0, model, json_value)

\* Callable.serialize: self.callable(model), here the projection  lambda p: p.<callable>
Callable_serialize(self, h, model) ==
  IF model \in DOMAIN h THEN getattr(h, model, self.callable)
  ELSE Raise("AttributeError", "'NoneType' object has no attribute")

\* a Callable.deserialize that looks the model up
Callable_deserialize_getattr(self, st, model, json_value, create) ==
  LET r == Callable_serialize(self, st.heap, model)
  IN IF r.ok THEN st ELSE Raised(st, r.exc)

\* Callable.deserialize: not deserialized
Callable_deserialize(self, st, model, json_value, create) == st

\* only one of the offending keys
unknown_keys_first(json_obj, mapping) ==
  LET diff == DOMAIN json_obj.m \ Keys(mapping)
  IN IF diff = {} THEN {} ELSE {CHOOSE key \in diff : TRUE}

\* the unknown-key check that opens _deserialize_nested
unknown_keys(json_obj, mapping) == DOMAIN json_obj.m \ Keys(mapping)

RECURSIVE MapField_deserialize(_, _, _, _, _)
RECURSIVE Serializer_deserialize(_, _, _, _, _)
RECURSIVE _deserialize_nested(_, _, _, _, _)
RECURSIVE deserialize_items(_, _, _, _, _, _)
RECURSIVE deserialize_items_get(_, _, _, _, _, _)
RECURSIVE deserialize_node(_, _, _, _, _, _)

\* json_value is not None
MapField_has_value(json_value) == ~IsNone(json_value)

\* MapField.deserialize calling the nested serializer without its create argument
MapField_deserialize_default_create(self, st, model, json_value, create) ==
  LET model_value == getattr(st.heap, model, self.model_attr)
  IN IF ~model_value.ok THEN Raised(st, model_value.exc)
     ELSE IF MapField_has_value(json_value)
       THEN IF ~IsNone(model_value.v)
              THEN Serializer_deserialize(self.mapping, st, model_value.v.o, json_value, FALSE)
            ELSE Raised(st, Exc("SerializationError", "Cannot modify a null nested field",
                                {self.model_attr}))
     ELSE IF self.nullable
       THEN setattr(st, model, self.model_attr, None)
     ELSE Raised(st, Exc("SerializationError",
                         "Cannot assign null to non-nullable attribute",
                         {self.model_attr}))

\* MapField.deserialize testing  if json_value:  where it tests  is not None
MapField_deserialize_truthy(self, st, model, json_value, create) ==
  LET model_value == getattr(st.heap, model, self.model_attr)
  IN IF ~model_value.ok THEN Raised(st, model_value.exc)
     ELSE IF PyBool(json_value)
       THEN IF ~IsNone(model_value.v)
              THEN Serializer_deserialize(self.mapping, st, model_value.v.o, json_value, create)
            ELSE Raised(st, Exc("SerializationError", "Cannot modify a null nested field",
                                {self.model_attr}))
     ELSE IF self.nullable
       THEN setattr(st, model, self.model_attr, None)
     ELSE Raised(st, Exc("SerializationError",
                         "Cannot assign null to non-nullable attribute",
                         {self.model_attr}))

\* MapField.deserialize assigning null whatever nullable says
MapField_deserialize_always_nullable(self, st, model, json_value, create) ==
  LET model_value == getattr(st.heap, model, self.model_attr)
  IN IF ~model_value.ok THEN Raised(st, model_value.exc)
     ELSE IF MapField_has_value(json_value)
       THEN IF ~IsNone(model_value.v)
              THEN Serializer_deserialize(self.mapping, st, model_value.v.o, json_value, create)
            ELSE Raised(st, Exc("SerializationError", "Cannot modify a null nested field",
                                {self.model_attr}))
     ELSE setattr(st, model, self.model_attr, None)

\* MapField.deserialize refusing a null attribute before it looks at json_value
MapField_deserialize_null_first(self, st, model, json_value, create) ==
  LET model_value == getattr(st.heap, model, self.model_attr)
  IN IF ~model_value.ok THEN Raised(st, model_value.exc)
     ELSE IF IsNone(model_value.v)
       THEN Raised(st, Exc("SerializationError", "Cannot modify a null nested field",
                           {self.model_attr}))
     ELSE IF MapField_has_value(json_value)
       THEN Serializer_deserialize(self.mapping, st, model_value.v.o, json_value, create)
     ELSE IF self.nullable
       THEN setattr(st, model, self.model_attr, None)
     ELSE Raised(st, Exc("SerializationError",
                         "Cannot assign null to non-nullable attribute",
                         {self.model_attr}))

MapField_deserialize(self, st, model, json_value, create) ==
  LET model_value == getattr(st.heap, model, self.model_attr)
  IN IF ~model_value.ok THEN Raised(st, model_value.exc)
     ELSE IF MapField_has_value(json_value)
       THEN IF ~IsNone(model_value.v)
              THEN Serializer_deserialize(self.mapping, st, model_value.v.o, json_value, create)
            ELSE Raised(st, Exc("SerializationError", "Cannot modify a null nested field",
                                {self.model_attr}))
     ELSE IF self.nullable
       THEN setattr(st, model, self.model_attr, None)
     ELSE Raised(st, Exc("SerializationError",
                         "Cannot assign null to non-nullable attribute",
                         {self.model_attr}))

Serializer_deserialize(self, st, model, json_value, create) ==
  _deserialize_nested(st, model, json_value, self.mapping, create)

RECURSIVE MapField_serialize(_, _, _)
RECURSIVE serialize_node(_, _, _, _)
RECURSIVE serialize_items(_, _, _, _, _)

\* Serializer._serialize_nested: the loop from json_obj = {} on
_serialize_nested(h, model, mapping) == serialize_items(h, model, mapping, <<>>, 1)

\* Serializer.serialize
Serializer_serialize(self, h, model) == _serialize_nested(h, model, self.mapping)

\* a MapField.serialize that gives an empty object for a null attribute
MapField_serialize_empty(self, h, model) ==
  LET model_value == getattr(h, model, self.model_attr)
  IN IF ~model_value.ok THEN model_value
     ELSE IF ~IsNone(model_value.v)
       THEN Serializer_serialize(self.mapping, h, model_value.v.o)
     ELSE Ok(MapV(<<>>))

\* MapField.serialize
MapField_serialize(self, h, model) ==
  LET model_value == getattr(h, model, self.model_attr)
  IN IF ~model_value.ok THEN model_value
     ELSE IF ~IsNone(model_value.v)
       THEN Serializer_serialize(self.mapping, h, model_value.v.o)
     ELSE Ok(None)

\* the value _serialize_nested stores under key, or the exception
serialize_node(node, h, model, key) ==
  IF IsAbstractSerializer(node)
    THEN CASE node.cls = "Field" -> Field_serialize(node, h, model)
           [] node.cls = "MapField" -> MapField_serialize(node, h, model)
           [] node.cls = "Callable" -> Callable_serialize(node, h, model)
           [] node.cls = "Serializer" -> Serializer_serialize(node, h, model)
  ELSE IF node.cls = "dict"
    THEN _serialize_nested(h, model, node)
  ELSE [ok |-> FALSE, exc |-> Exc("TypeError", "Invalid field", {key})]

\* the loop  for key in mapping  of _serialize_nested from its i-th key on
serialize_items(h, model, mapping, json_obj, i) ==
  IF i > Len(mapping.items) THEN Ok(MapV(json_obj))
  ELSE LET key == mapping.items[i][1]
           r == serialize_node(mapping.items[i][2], h, model, key)
       IN IF ~r.ok THEN r
          ELSE serialize_items(h, model, mapping, (key :> r.v) @@ json_obj, i + 1)

\* a dispatch that passes over a node it does not know
deserialize_node_skip_invalid(node, st, model, json_value, create, key) ==
  IF IsAbstractSerializer(node)
    THEN CASE node.cls = "Field" -> Field_deserialize(node, st, model, json_value, create)
           [] node.cls = "MapField" -> MapField_deserialize(node, st, model, json_value, create)
           [] node.cls = "Callable" -> Callable_deserialize(node, st, model, json_value, create)
           [] node.cls = "Serializer" ->
                Serializer_deserialize(node, st, model, json_value, create)
  ELSE IF node.cls = "dict"
    THEN _deserialize_nested(st, model, json_value, node, create)
  ELSE st

\* mapping[key] handled with the value the document gives for key
deserialize_node(node, st, model, json_value, create, key) ==
  IF IsAbstractSerializer(node)
    THEN CASE node.cls = "Field" -> Field_deserialize(node, st, model, json_value, create)
           [] node.cls = "MapField" -> MapField_deserialize(node, st, model, json_value, create)
           [] node.cls = "Callable" -> Callable_deserialize(node, st, model, json_value, create)
           [] node.cls = "Serializer" ->
                Serializer_deserialize(node, st, model, json_value, create)
  ELSE IF node.cls = "dict"
    THEN _deserialize_nested(st, model, json_value, node, create)
  ELSE Raised(st, Exc("TypeError", "Invalid field for", {key}))

\* the same loop reading json_obj.get(key) for a key the document lacks
deserialize_items_get(st, model, json_obj, mapping, create, i) ==
  IF i > Len(mapping.items) \/ st.exc # NoExc THEN st
  ELSE LET key == mapping.items[i][1]
           json_value == IF key \in DOMAIN json_obj.m THEN json_obj.m[key] ELSE None
       IN deserialize_items_get(
            deserialize_node(mapping.items[i][2], st, model, json_value, create, key),
            model, json_obj, mapping, create, i + 1)

\* the loop  for key in mapping  from its i-th key on; an exception ends it
deserialize_items(st, model, json_obj, mapping, create, i) ==
  IF i > Len(mapping.items) \/ st.exc # NoExc THEN st
  ELSE LET key == mapping.items[i][1]
       IN IF key \notin DOMAIN json_obj.m
            THEN deserialize_items(st, model, json_obj, mapping, create, i + 1)
          ELSE deserialize_items(
                 deserialize_node(mapping.items[i][2], st, model, json_obj.m[key], create, key),
                 model, json_obj, mapping, create, i + 1)

\* _deserialize_nested with its unknown-key check moved after the loop
deserialize_nested_check_last(st, model, json_obj, mapping, create) ==
  IF json_obj.t # "map"
    THEN Raised(st, Exc("AttributeError", "object has no attribute 'keys'", {}))
  ELSE LET st0 == Log(st, Event("level", model, "", None, DOMAIN json_obj.m, Keys(mapping)))
           st1 == deserialize_items(st0, model, json_obj, mapping, create, 1)
       IN IF st1.exc = NoExc /\ unknown_keys(json_obj, mapping) # {}
            THEN Raised(st1, Exc("SerializationError",
                                 "Properties are not valid for this resource",
                                 unknown_keys(json_obj, mapping)))
          ELSE st1

_deserialize_nested(st, model, json_obj, mapping, create) ==
  IF json_obj.t # "map"
    THEN Raised(st, Exc("AttributeError", "object has no attribute 'keys'", {}))
  ELSE LET st0 == Log(st, Event("level", model, "", None, DOMAIN json_obj.m, Keys(mapping)))
       IN IF unknown_keys(json_obj, mapping) # {}
            THEN Raised(st0, Exc("SerializationError",
                                 "Properties are not valid for this resource",
                                 unknown_keys(json_obj, mapping)))
          ELSE deserialize_items(st0, model, json_obj, mapping, create, 1)

(***************************************************************************)
(* The models, the schemas and the documents of the state machine          *)
(***************************************************************************)
\* the most keys, over all its levels, of a document handed to Serializer.deserialize
MaxDocKeys == 3

\* a root model "p" whose attribute sub holds the model "q" or None, and whose
\* attribute z no schema refers to
Objects == {"p", "q"}

Chr(c) == Str(<<c>>)

\* one schema for each choice of flags: every Field carries the same three flags
SchemaOf(readonly, createonly, nullable, map_nullable) ==
  Serializer(Dict(<<
    <<"a", Field("n", Integer, readonly, createonly, nullable)>>,
    <<"g", Dict(<< <<"b", Field("s", String(FALSE), readonly, createonly, nullable)>> >>)>>,
    <<"m", MapField("sub",
                    Dict(<< <<"x", Field("x", Integer, readonly, createonly, nullable)>> >>),
                    map_nullable)>>
  >>))

Schemas ==
  {SchemaOf(ro, co, nl, mnl) : ro \in BOOLEAN, co \in BOOLEAN, nl \in BOOLEAN, mnl \in BOOLEAN}

\* a schema with a Callable at the key u of each of its levels
CallableSchema ==
  Serializer(Dict(<<
    <<"a", Field("n", Integer, FALSE, FALSE, TRUE)>>,
    <<"u", Callable("s")>>,
    <<"g", Dict(<< <<"b", Field("s", String(FALSE), FALSE, FALSE, TRUE)>>,
                   <<"u", Callable("n")>> >>)>>,
    <<"m", MapField("sub",
                    Dict(<< <<"x", Field("x", Integer, FALSE, FALSE, TRUE)>>,
                            <<"u", Callable("x")>> >>),
                    TRUE)>>
  >>))

\* a schema whose key v holds a str, after a Field and before a nested mapping
InvalidSchema(nullable) ==
  Serializer(Dict(<<
    <<"a", Field("n", Integer, FALSE, FALSE, nullable)>>,
    <<"v", Invalid("bar")>>,
    <<"g", Dict(<< <<"b", Field("s", String(FALSE), FALSE, FALSE, TRUE)>> >>)>>
  >>))

\* a schema whose only invalid node is in the mapping of its MapField
InvalidNestedSchema ==
  Serializer(Dict(<<
    <<"a", Field("n", Integer, FALSE, FALSE, TRUE)>>,
    <<"m", MapField("sub",
                    Dict(<< <<"x", Field("x", Integer, FALSE, FALSE, TRUE)>>,
                            <<"u", Invalid("bar")>> >>),
                    TRUE)>>
  >>))

\* a schema that binds the attribute n twice, at a and at u
DoubleSchema(readonly) ==
  Serializer(Dict(<<
    <<"a", Field("n", Integer, readonly, FALSE, TRUE)>>,
    <<"u", Field("n", Integer, FALSE, FALSE, TRUE)>>
  >>))

OtherSchemas ==
  {CallableSchema, InvalidNestedSchema}
    \cup {InvalidSchema(nl) : nl \in BOOLEAN} \cup {DoubleSchema(ro) : ro \in BOOLEAN}

InitHeaps ==
  {[p |-> [n |-> n, s |-> Chr("a"), sub |-> sub, z |-> IntV(1)], q |-> [x |-> IntV(1)]] :
     n \in {None, IntV(1)}, sub \in {None, Ref("q")}}

RECURSIVE MappingsFrom(_, _)
\* the mappings that give some of the keys K a value of the template
MappingsFrom(template, K) ==
  IF K = {} THEN {[key \in {} |-> None]}
  ELSE LET key == CHOOSE key \in K : TRUE
           rest == MappingsFrom(template, K \ {key})
       IN rest \cup {(key :> v) @@ r : v \in template[key], r \in rest}

\* the JSON objects over a template: a function from each key to the values it may take
MappingsOver(template) == {MapV(f) : f \in MappingsFrom(template, DOMAIN template)}

RECURSIVE KeyCount(_)
\* the number of keys of a document, over all its levels
KeyCount(doc) ==
  IF doc.t # "map" \/ DOMAIN doc.m = {} THEN 0
  ELSE LET key == CHOOSE key \in DOMAIN doc.m : TRUE
       IN 1 + KeyCount(doc.m[key])
            + KeyCount(MapV([other \in DOMAIN doc.m \ {key} |-> doc.m[other]]))

GroupDocs ==
  MappingsOver([b |-> {Chr("a"), Str(<<" ", "b">>)}, u |-> {IntV(1)}, v |-> {IntV(1)}])
  \cup {IntV(1)}
SubDocs == MappingsOver([x |-> {IntV(2)}, u |-> {IntV(1)}]) \cup {None}

Documents ==
  {doc \in MappingsOver([a |-> {None, IntV(2)}, g |-> GroupDocs, m |-> SubDocs,
                         u |-> {IntV(1)}, v |-> {IntV(1)}]) :
     KeyCount(doc) <= MaxDocKeys}

\* the JSON values handed to a Field's deserialize when it is called on its own
FieldValues(converter) ==
  IF converter.c = "String"
    THEN {None, Chr("a"), Str(<<" ", "a">>), Chr("b"), Str(<<>>)}
  ELSE {None, IntV(1), IntV(2), FloatV(15, 1), BoolV(TRUE), Chr("a"), Chr("2")}

\* the JSON values handed to a MapField's deserialize when it is called on its own
MapFieldValues == SubDocs \cup {IntV(1)}

\* the Fields of a mapping, each with the model it is applied to
RECURSIVE Bindings(_, _)
Bindings(mapping, model) ==
  UNION {LET node == mapping.items[i][2]
         IN CASE node.cls = "Field" -> {[self |-> node, model |-> model]}
              [] node.cls = "MapField" -> Bindings(node.mapping.mapping, "q")
              [] node.cls = "dict" -> Bindings(node, model)
              [] OTHER -> {}
         : i \in 1..Len(mapping.items)}

MapFields(mapping) ==
  {mapping.items[i][2] : i \in {j \in 1..Len(mapping.items) : mapping.items[j][2].cls = "MapField"}}

NoCall == [op |-> "none"]
Call(op, self, model, json_value, create) ==
  [op |-> op, self |-> self, model |-> model, json_value |-> json_value, create |-> create]

ConvIdle == cConv = None /\ cIn = None /\ cOp = "idle" /\ cOut = Ok(None)

Init ==
  /\ schema \in Schemas \cup OtherSchemas
  /\ heap \in InitHeaps
  /\ preHeap = heap
  /\ lastCall = NoCall
  /\ lastExc = NoExc
  /\ lastRet = None
  /\ trace = <<>>
  /\ ConvIdle

Start == [heap |-> heap, trace |-> <<>>, exc |-> NoExc]

\* a call returns or raises: its effect on the heap stays either way
Finish(call, r) ==
  /\ lastCall.op = "none"
  /\ heap' = r.heap
  /\ preHeap' = heap
  /\ lastCall' = call
  /\ lastExc' = r.exc
  /\ lastRet' = None
  /\ trace' = r.trace
  /\ UNCHANGED <<schema, cConv, cIn, cOp, cOut>>

\* serializer.deserialize(p, json_value, create)
DeserializeCall ==
  \E json_value \in Documents, create \in BOOLEAN :
    Finish(Call("Serializer.deserialize", schema, "p", json_value, create),
           Serializer_deserialize(schema, Start, "p", json_value, create))

\* field.deserialize(model, json_value, create) on a Field of the schema
FieldDeserializeCall ==
  \E fb \in Bindings(schema.mapping, "p"), create \in BOOLEAN :
    \E json_value \in FieldValues(fb.self.converter) :
    Finish(Call("Field.deserialize", fb.self, fb.model, json_value, create),
           Field_deserialize(fb.self, Start, fb.model, json_value, create))

\* map_field.deserialize(p, json_value, create) on a MapField of the schema
MapFieldDeserializeCall ==
  \E mf \in MapFields(schema.mapping), json_value \in MapFieldValues, create \in BOOLEAN :
    Finish(Call("MapField.deserialize", mf, "p", json_value, create),
           MapField_deserialize(mf, Start, "p", json_value, create))

\* callable_field.deserialize(model, json_value, create), the model None too
NullModel == "None"
CallableModels == Objects \cup {NullModel}
CallableValues == {None, IntV(1), Chr("a"), MapV(<<>>)}

RECURSIVE Callables(_)
Callables(mapping) ==
  UNION {LET node == mapping.items[i][2]
         IN CASE node.cls = "Callable" -> {node}
              [] node.cls = "MapField" -> Callables(node.mapping.mapping)
              [] node.cls = "dict" -> Callables(node)
              [] OTHER -> {}
         : i \in 1..Len(mapping.items)}

CallableDeserializeCall ==
  \E cf \in Callables(schema.mapping), model \in CallableModels,
     json_value \in CallableValues, create \in BOOLEAN :
    Finish(Call("Callable.deserialize", cf, model, json_value, create),
           Callable_deserialize(cf, Start, model, json_value, create))

\* serializer.serialize(p)
SerializeCall ==
  LET r == Serializer_serialize(schema, heap, "p")
  IN /\ lastCall.op = "none"
     /\ lastCall' = Call("Serializer.serialize", schema, "p", None, FALSE)
     /\ lastExc' = IF r.ok THEN NoExc ELSE r.exc
     /\ lastRet' = IF r.ok THEN r.v ELSE None
     /\ preHeap' = heap
     /\ trace' = <<>>
     /\ UNCHANGED <<schema, heap, cConv, cIn, cOp, cOut>>

\* the caller has seen the outcome and goes on to its next call
Return ==
  /\ lastCall.op # "none"
  /\ lastCall' = NoCall
  /\ lastExc' = NoExc
  /\ lastRet' = None
  /\ preHeap' = heap
  /\ trace' = <<>>
  /\ UNCHANGED <<schema, heap, cConv, cIn, cOp, cOut>>

(***************************************************************************)
(* The converters on their own: one converter, one input, then a           *)
(* conversion, and json_to_model of what model_to_json returned            *)
(***************************************************************************)
Converters ==
  {String(FALSE), String(TRUE), Boolean, Integer, Decimal, Date, DateTime,
   Array(Integer), Array(Date), Array(String(FALSE))}

ScalarConverters == {"String", "Boolean", "Integer", "Decimal", "Date", "DateTime"}

S_date == <<"2", "0", "1", "4", "-", "0", "2", "-", "2", "8">>
S_feb29 == <<"2", "0", "1", "4", "-", "0", "2", "-", "2", "9">>
S_time == <<"T", "1", "6", ":", "1", "6", ":", "3", "7">>

\* JSON values of every type: strings, numbers, booleans, sequences, mappings, null
JsonInputs ==
  {None, BoolV(TRUE), BoolV(FALSE),
   IntV(0), IntV(12), IntV(-3), FloatV(15, 1), FloatV(1, 1), FloatV(-99, 2), FloatInf,
   Str(<<>>), Str(<<" ">>), Chr("a"), Str(<<" ", "a", " ">>), Str(<<"1", "2">>),
   Str(<<" ", "-", "7">>), Str(S_date), Str(S_feb29), Str(S_date \o S_time),
   Str(S_date \o S_time \o <<".", "5">>), Str(<<"2", "0", "1", "4", "-", "2", "-", "3">>),
   ListV(<<>>), ListV(<<IntV(1)>>), ListV(<<IntV(1), Chr("2")>>), ListV(<<Str(S_date)>>),
   ListV(<<Chr("a"), Str(<<>>)>>), ListV(<<ListV(<<>>)>>), ListV(<<FloatInf>>),
   MapV(<<>>), MapV([a |-> IntV(1)]), MapV([a |-> IntV(1), b |-> None])}

Strings == {Chr("a"), Str(<<"a", " ", "b">>), Str(<<>>), Str(<<" ", "a">>), Str(<<"a", "\n">>)}
Decimals ==
  {DecV(0, 0, FALSE), DecV(3, 0, FALSE), DecV(5, 1, FALSE), DecV(-25, 2, FALSE),
   DecV(1, 1, FALSE), DecV(-99, 2, FALSE), DecV(80091, 2, FALSE), DecV(1, 1, TRUE), DecInf}
Dates == {DateV(2014, 3, 12), DateV(2012, 2, 29), DateV(999, 1, 1), DateV(2015, 12, 31)}
DateTimes ==
  {DateTimeV(2015, 1, 1, 16, 16, 37, 1), DateTimeV(2014, 12, 31, 0, 0, 0, 0),
   DateTimeV(2012, 2, 29, 23, 59, 59, 500000), DateTimeV(999, 1, 1, 1, 2, 3, 0)}

RECURSIVE ModelValues(_)
\* the model values tried with each converter
ModelValues(converter) ==
  CASE converter.c = "String" -> Strings
    [] converter.c = "Boolean" -> {BoolV(TRUE), BoolV(FALSE)}
    [] converter.c = "Integer" -> {IntV(0), IntV(12), IntV(-3)}
    [] converter.c = "Decimal" -> Decimals
    [] converter.c = "Date" -> Dates
    [] converter.c = "DateTime" -> DateTimes
    [] converter.c = "Array" ->
         {ListV(<<>>)} \cup {ListV(<<v>>) : v \in ModelValues(converter.converter)}
           \cup {ListV(<<v, w>>) : v, w \in ModelValues(converter.converter)}

SerIdle ==
  /\ schema = SchemaOf(FALSE, FALSE, TRUE, FALSE)
  /\ heap = [p |-> [n |-> None, s |-> None, sub |-> None, z |-> None], q |-> [x |-> None]]
  /\ preHeap = heap
  /\ lastCall = NoCall
  /\ lastExc = NoExc
  /\ lastRet = None
  /\ trace = <<>>

ConvInit ==
  /\ cConv \in Converters
  /\ cIn \in JsonInputs \cup ModelValues(cConv)
  /\ cOp = "input"
  /\ cOut = Ok(None)
  /\ SerIdle

Converted(op, out) ==
  /\ cOp' = op
  /\ cOut' = out
  /\ UNCHANGED <<cConv, cIn, schema, heap, preHeap, lastCall, lastExc, lastRet, trace>>

\* converter.json_to_model(json_value)
JsonToModelCall ==
  /\ cOp = "input"
  /\ cIn \in JsonInputs
  /\ Converted("json_to_model", json_to_model(cConv, cIn))

\* converter.model_to_json(model_value)
ModelToJsonCall ==
  /\ cOp = "input"
  /\ cIn \in ModelValues(cConv)
  /\ Converted("model_to_json", Ok(model_to_json(cConv, cIn)))

\* converter.json_to_model(converter.model_to_json(model_value))
RoundTripCall ==
  /\ cOp = "model_to_json"
  /\ Converted("round_trip", json_to_model(cConv, cOut.v))

ConvNext ==
  \/ JsonToModelCall
  \/ ModelToJsonCall
  \/ RoundTripCall

ConvSpec == ConvInit /\ [][ConvNext]_vars

Next ==
  \/ DeserializeCall
  \/ FieldDeserializeCall
  \/ MapFieldDeserializeCall
  \/ CallableDeserializeCall
  \/ SerializeCall
  \/ Return

Spec == Init /\ [][Next]_vars

(***************************************************************************)
(* Properties of deserialize                                               *)
(***************************************************************************)
Immutable(attr) == Exc("SerializationError", "Cannot change read-only attribute", {attr})
NonNullable(attr) ==
  Exc("SerializationError", "Cannot assign null to non-nullable attribute", {attr})
NullNested(attr) == Exc("SerializationError", "Cannot modify a null nested field", {attr})
UnknownField(keys) ==
  Exc("SerializationError", "Properties are not valid for this resource", keys)

\* the attributes whose value the call changed
Changed ==
  UNION {{<<o, at>> : at \in {a \in DOMAIN heap[o] : heap[o][a] # preHeap[o][a]}} :
           o \in Objects}

RECURSIVE BoundPresent(_, _, _)
\* the attributes bound by the fields whose key the document has, level by level;
\* a MapField binds its attribute and, below it, the attributes of the model there
BoundPresent(mapping, json_obj, model) ==
  IF json_obj.t # "map" THEN {}
  ELSE UNION {LET node == mapping.items[i][2]
                  key == mapping.items[i][1]
              IN IF key \notin DOMAIN json_obj.m THEN {}
                 ELSE CASE node.cls = "Field" -> {<<model, node.model_attr>>}
                        [] node.cls = "dict" -> BoundPresent(node, json_obj.m[key], model)
                        [] node.cls = "MapField" ->
                             {<<model, node.model_attr>>} \cup
                             (IF preHeap[model][node.model_attr].t = "ref"
                                THEN BoundPresent(node.mapping.mapping, json_obj.m[key],
                                                  preHeap[model][node.model_attr].o)
                              ELSE {})
                        [] OTHER -> {}
              : i \in 1..Len(mapping.items)}

\* C1: a deserialize that succeeds changes no attribute but those bound by the
\* fields whose key is present in the document; an absent key leaves its
\* attribute as it was
C1_PartialUpdate ==
  lastCall.op = "Serializer.deserialize" /\ lastExc = NoExc =>
    Changed \subseteq BoundPresent(lastCall.self.mapping, lastCall.json_value, lastCall.model)

\* a successful call whose document lacks the key a: it wrote x of the nested
\* model and left the non-null n alone
C1_Witness ==
  /\ lastCall.op = "Serializer.deserialize"
  /\ lastExc = NoExc
  /\ "a" \notin DOMAIN lastCall.json_value.m
  /\ <<"q", "x">> \in Changed
  /\ ~IsNone(heap["p"]["n"])

NoEvent(evs) == \A i \in 1..Len(trace) : trace[i].ev \notin evs

\* C2: deserialize on a readonly field never writes; it returns when the document
\* value equals the field's serialized value and raises the read-only error when
\* it differs, comparing the document value as given, never converted
C2_ReadOnly ==
  lastCall.op = "Field.deserialize" /\ lastCall.self.readonly =>
    LET old == Field_serialize(lastCall.self, preHeap, lastCall.model).v
    IN /\ heap = preHeap
       /\ NoEvent({"json_to_model", "setattr"})
       /\ lastExc = IF PyEq(lastCall.json_value, old) THEN NoExc
                    ELSE Immutable(lastCall.self.model_attr)

\* " a" offered for a readonly String field holding "a": equal once converted,
\* different as documents, and refused
C2_Witness ==
  /\ lastCall.op = "Field.deserialize"
  /\ lastCall.self.readonly
  /\ lastCall.json_value = Str(<<" ", "a">>)
  /\ preHeap[lastCall.model][lastCall.self.model_attr] = Chr("a")
  /\ lastExc = Immutable(lastCall.self.model_attr)

RECURSIVE Redeclare(_, _, _)
\* the schema with each createonly, not readonly Field given other flags
Redeclare(node, readonly, createonly) ==
  CASE node.cls = "Field" ->
         IF node.createonly /\ ~node.readonly
           THEN [node EXCEPT !.readonly = readonly, !.createonly = createonly]
         ELSE node
    [] node.cls = "dict" ->
         [node EXCEPT !.items = [i \in DOMAIN node.items |->
            <<node.items[i][1], Redeclare(node.items[i][2], readonly, createonly)>>]]
    [] node.cls \in {"MapField", "Serializer"} ->
         [node EXCEPT !.mapping = Redeclare(node.mapping, readonly, createonly)]
    [] OTHER -> node

\* what the call does from the heap it started on
Outcome(call) ==
  LET st == [heap |-> preHeap, trace |-> <<>>, exc |-> NoExc]
  IN CASE call.op = "Serializer.deserialize" ->
            Serializer_deserialize(call.self, st, call.model, call.json_value, call.create)
       [] call.op = "Field.deserialize" ->
            Field_deserialize(call.self, st, call.model, call.json_value, call.create)
       [] call.op = "MapField.deserialize" ->
            MapField_deserialize(call.self, st, call.model, call.json_value, call.create)
       [] call.op = "Callable.deserialize" ->
            Callable_deserialize(call.self, st, call.model, call.json_value, call.create)
       [] call.op = "Serializer.serialize" ->
            LET r == Serializer_serialize(call.self, preHeap, call.model)
            IN IF r.ok THEN st ELSE Raised(st, r.exc)

SameOutcome(call) == LET r == Outcome(call) IN r.heap = heap /\ r.exc = lastExc

\* C3: with create false a createonly, not readonly field does what the same
\* field declared readonly does; with create true what the same field with
\* neither flag does; so through nested mappings and MapFields as well
C3_CreateOnly ==
  lastCall.op # "none" =>
    IF lastCall.create
      THEN SameOutcome([lastCall EXCEPT !.self = Redeclare(@, FALSE, FALSE)])
    ELSE /\ SameOutcome([lastCall EXCEPT !.self = Redeclare(@, TRUE, TRUE)])
         /\ SameOutcome([lastCall EXCEPT !.self = Redeclare(@, TRUE, FALSE)])

\* create handed down through a MapField: the createonly field x of the nested
\* model was written
C3_Witness ==
  /\ lastCall.op = "Serializer.deserialize"
  /\ lastCall.create
  /\ Redeclare(lastCall.self, TRUE, TRUE) # lastCall.self
  /\ <<"q", "x">> \in Changed

\* C4: a level raises the unknown-field error exactly when its document has a key
\* its schema lacks, and the error names the set of those keys, all of them and
\* no other
C4_UnknownKeys ==
  lastCall.op # "none" =>
    /\ \A i \in 1..Len(trace) :
         trace[i].ev = "level" =>
           LET diff == trace[i].doc \ trace[i].known
           IN (diff # {}) <=> (i = Len(trace) /\ lastExc = UnknownField(diff))
    /\ lastExc.msg = "Properties are not valid for this resource" =>
         trace # <<>> /\ trace[Len(trace)].ev = "level"
    /\ lastCall.op = "Serializer.deserialize" =>
         /\ trace[1].ev = "level"
         /\ trace[1].doc = DOMAIN lastCall.json_value.m
         /\ trace[1].known = Keys(lastCall.self.mapping)

\* two unknown keys beside a valid one: both are named
C4_Witness ==
  /\ lastCall.op = "Serializer.deserialize"
  /\ DOMAIN lastCall.json_value.m = {"a", "u", "v"}
  /\ lastExc = UnknownField({"u", "v"})

\* the value of the last setattr of the call on an attribute, if there is one
Written(o, at) ==
  {trace[i].val : i \in {j \in 1..Len(trace) :
     /\ trace[j].ev = "setattr" /\ trace[j].obj = o /\ trace[j].attr = at
     /\ \A k \in (j + 1)..Len(trace) :
          ~(trace[k].ev = "setattr" /\ trace[k].obj = o /\ trace[k].attr = at)}}

\* C5: unknown keys at the top level are refused before any field is written;
\* unknown keys at a deeper level are refused when the loop reaches that level,
\* and what the fields before it wrote stays written
C5_NoRollback ==
  lastCall.op = "Serializer.deserialize"
    /\ lastExc.msg = "Properties are not valid for this resource" =>
    IF DOMAIN lastCall.json_value.m \ Keys(lastCall.self.mapping) # {}
      THEN heap = preHeap /\ Len(trace) = 1
    ELSE /\ Len(trace) > 1
         /\ trace[Len(trace)].ev = "level"
         /\ \A o \in Objects : \A at \in DOMAIN heap[o] :
              IF Written(o, at) = {} THEN heap[o][at] = preHeap[o][at]
              ELSE Written(o, at) = {heap[o][at]}

\* a document refused for a key of a nested level after n was written
C5_Witness ==
  /\ lastCall.op = "Serializer.deserialize"
  /\ lastExc.msg = "Properties are not valid for this resource"
  /\ DOMAIN lastCall.json_value.m \subseteq Keys(lastCall.self.mapping)
  /\ <<"p", "n">> \in Changed

Writable(self, create) == ~self.readonly /\ (~self.createonly \/ create)

\* C6: null for a writable field: a field that is not nullable raises the
\* non-nullable error and writes nothing; a nullable field sets the attribute to
\* null, and json_to_model is not called
C6_NullField ==
  /\ lastCall.op = "Field.deserialize"
  /\ IsNone(lastCall.json_value)
  /\ Writable(lastCall.self, lastCall.create)
  => /\ NoEvent({"json_to_model"})
     /\ IF lastCall.self.nullable
          THEN /\ lastExc = NoExc
               /\ heap = [preHeap EXCEPT ![lastCall.model][lastCall.self.model_attr] = None]
        ELSE /\ lastExc = NonNullable(lastCall.self.model_attr)
             /\ heap = preHeap

\* null refused by a writable field that is not nullable and holds a value
C6_Witness ==
  /\ lastCall.op = "Field.deserialize"
  /\ IsNone(lastCall.json_value)
  /\ Writable(lastCall.self, lastCall.create)
  /\ ~lastCall.self.nullable
  /\ ~IsNone(heap[lastCall.model][lastCall.self.model_attr])
  /\ lastExc = NonNullable(lastCall.self.model_attr)

\* C7: null for a MapField: a nullable one sets its attribute to null and
\* changes nothing else; one that is not nullable raises the non-nullable error
\* and changes nothing
C7_MapFieldNull ==
  lastCall.op = "MapField.deserialize" /\ IsNone(lastCall.json_value) =>
    IF lastCall.self.nullable
      THEN /\ lastExc = NoExc
           /\ heap = [preHeap EXCEPT ![lastCall.model][lastCall.self.model_attr] = None]
    ELSE /\ lastExc = NonNullable(lastCall.self.model_attr)
         /\ heap = preHeap

\* a nullable MapField whose attribute held a model and now holds null
C7_Witness ==
  /\ lastCall.op = "MapField.deserialize"
  /\ IsNone(lastCall.json_value)
  /\ lastCall.self.nullable
  /\ preHeap["p"]["sub"] = Ref("q")
  /\ IsNone(heap["p"]["sub"])
  /\ lastExc = NoExc

\* C8: a document value that is not null, an empty mapping too, for a MapField
\* whose attribute is null raises the null-nested error; no model is created and
\* the attribute stays null
C8_NullNested ==
  /\ lastCall.op = "MapField.deserialize"
  /\ ~IsNone(lastCall.json_value)
  /\ IsNone(preHeap[lastCall.model][lastCall.self.model_attr])
  => /\ lastExc = NullNested(lastCall.self.model_attr)
     /\ heap = preHeap
     /\ trace = <<>>

\* the empty mapping refused while the attribute is null
C8_Witness ==
  /\ lastCall.op = "MapField.deserialize"
  /\ lastCall.json_value = MapV(<<>>)
  /\ IsNone(preHeap["p"]["sub"])
  /\ lastExc = NullNested("sub")

(***************************************************************************)
(* Properties of the converters                                            *)
(***************************************************************************)
\* the valid domain of a converter: a String takes the strings that strip
\* leaves alone, and the empty one only with allow_empty
InDomain(converter, x) ==
  converter.c = "String" => x.s = Strip(x.s) /\ (converter.allow_empty \/ x.s # <<>>)

\* a Decimal that a binary double holds exactly
ExactDouble(x) == x.t = "decinf" \/ x.bin \/ Dyadic(x.n, x.k)

RoundTripped == cOp = "round_trip" /\ cConv.c \in ScalarConverters /\ InDomain(cConv, cIn)

C10_TypedFailure ==
  cOp = "json_to_model" /\ ~IsNone(cIn) =>
    cOut.ok \/ cOut.exc.type = "SerializationError"

(***************************************************************************)
(* Properties of serialize                                                 *)
(***************************************************************************)
RECURSIVE SerializedAs(_, _, _)
\* doc has the shape of mapping read from model: its keys are the keys of the
\* mapping; a nested mapping is read from the same model, a MapField from the
\* model its attribute holds, and gives null when that attribute is null
SerializedAs(doc, mapping, model) ==
  /\ doc.t = "map"
  /\ DOMAIN doc.m = Keys(mapping)
  /\ \A i \in 1..Len(mapping.items) :
       LET key == mapping.items[i][1]
           node == mapping.items[i][2]
       IN CASE node.cls = "Field" ->
                 doc.m[key] =
                   IF IsNone(heap[model][node.model_attr]) THEN None
                   ELSE model_to_json(node.converter, heap[model][node.model_attr])
            [] node.cls = "dict" -> SerializedAs(doc.m[key], node, model)
            [] node.cls = "MapField" ->
                 IF IsNone(heap[model][node.model_attr]) THEN IsNone(doc.m[key])
                 ELSE SerializedAs(doc.m[key], node.mapping.mapping,
                                   heap[model][node.model_attr].o)
            [] node.cls = "Callable" -> doc.m[key] = heap[model][node.callable]
            [] OTHER -> FALSE

\* C11: the document serialize returns has, at every plain-mapping level, exactly
\* the keys of the schema at that level; a nested mapping is serialized against the
\* same model, a MapField against the model in its attribute, and a MapField whose
\* attribute is null gives null, not a mapping
C11_SerializeStructure ==
  lastCall.op = "Serializer.serialize" /\ lastExc = NoExc =>
    /\ SerializedAs(lastRet, lastCall.self.mapping, lastCall.model)
    /\ heap = preHeap

\* a document with the nested mapping g read from p and null at m, whose attribute
\* is null
C11_Witness ==
  /\ lastCall.op = "Serializer.serialize"
  /\ lastExc = NoExc
  /\ IsNone(heap["p"]["sub"])
  /\ DOMAIN lastRet.m = {"a", "g", "m"}
  /\ lastRet.m["g"] = MapV([b |-> heap["p"]["s"]])
  /\ IsNone(lastRet.m["m"])

RECURSIVE WithoutCallables(_, _)
\* the document less the keys that the mapping binds to a Callable, at every level
WithoutCallables(doc, mapping) ==
  IF doc.t # "map" THEN doc
  ELSE LET bound(key) == key \in Keys(mapping)
           kept == {key \in DOMAIN doc.m :
                      ~(bound(key) /\ Node(mapping, key).cls = "Callable")}
       IN MapV([key \in kept |->
            IF ~bound(key) THEN doc.m[key]
            ELSE LET node == Node(mapping, key)
                 IN CASE node.cls = "dict" -> WithoutCallables(doc.m[key], node)
                      [] node.cls = "MapField" ->
                           WithoutCallables(doc.m[key], node.mapping.mapping)
                      [] OTHER -> doc.m[key]])

\* C12: Callable.deserialize returns for every value and every model, None too,
\* and neither reads nor writes the model; Serializer.deserialize accepts a key
\* bound to a Callable and does what it does for the document without that key
C12_CallableNoOp ==
  /\ lastCall.op = "Callable.deserialize" =>
       lastExc = NoExc /\ heap = preHeap /\ trace = <<>>
  /\ lastCall.op = "Serializer.deserialize"
       /\ WithoutCallables(lastCall.json_value, lastCall.self.mapping) # lastCall.json_value =>
       SameOutcome([lastCall EXCEPT !.json_value = WithoutCallables(@, lastCall.self.mapping)])

\* a value handed to a Callable with no model
C12_Witness ==
  /\ lastCall.op = "Callable.deserialize"
  /\ lastCall.model = NullModel
  /\ lastCall.json_value = IntV(1)
  /\ lastExc = NoExc

(***************************************************************************)
(* Properties of a schema with an invalid node                             *)
(***************************************************************************)
IsInvalid(node) == ~IsAbstractSerializer(node) /\ node.cls # "dict"

RECURSIVE HasInvalid(_)
\* some node of the schema, at any depth, is neither a serializer nor a mapping
HasInvalid(mapping) ==
  \E i \in 1..Len(mapping.items) :
    LET node == mapping.items[i][2]
    IN \/ IsInvalid(node)
       \/ node.cls = "dict" /\ HasInvalid(node)
       \/ node.cls = "MapField" /\ HasInvalid(node.mapping.mapping)

RECURSIVE HitsInvalid(_, _)
\* the document has the key of an invalid node, at a level where it has no unknown
\* key, no more than the levels above
HitsInvalid(doc, mapping) ==
  /\ doc.t = "map"
  /\ DOMAIN doc.m \subseteq Keys(mapping)
  /\ \E key \in DOMAIN doc.m :
       LET node == Node(mapping, key)
       IN \/ IsInvalid(node)
          \/ node.cls = "dict" /\ HitsInvalid(doc.m[key], node)
          \/ node.cls = "MapField" /\ HitsInvalid(doc.m[key], node.mapping.mapping)

SchemaError(msg, key) == Exc("TypeError", msg, {key})
IsSchemaError == lastExc.type = "TypeError" /\ lastExc.type # "SerializationError"

\* C13 as stated: with an invalid node in the schema serialize fails with the
\* schema error for every model, and deserialize for every document that has the
\* node's key and no unknown key at that level
C13_InvalidSchema ==
  /\ lastCall.op = "Serializer.serialize" /\ HasInvalid(lastCall.self.mapping) =>
       IsSchemaError /\ IsNone(lastRet)
  /\ lastCall.op = "Serializer.deserialize"
       /\ HitsInvalid(lastCall.json_value, lastCall.self.mapping) =>
       IsSchemaError

RECURSIVE InvalidOnWalk(_, _)
\* the keys of the invalid nodes in the order serialize comes to them: a nested
\* mapping is walked, a MapField only when its attribute holds a model
InvalidOnWalk(mapping, model) ==
  LET RECURSIVE from(_)
      from(i) ==
        IF i > Len(mapping.items) THEN <<>>
        ELSE LET node == mapping.items[i][2]
                 here == CASE IsInvalid(node) -> <<mapping.items[i][1]>>
                           [] node.cls = "dict" -> InvalidOnWalk(node, model)
                           [] node.cls = "MapField" ->
                                IF IsNone(heap[model][node.model_attr]) THEN <<>>
                                ELSE InvalidOnWalk(node.mapping.mapping,
                                                   heap[model][node.model_attr].o)
                           [] OTHER -> <<>>
             IN here \o from(i + 1)
  IN from(1)

\* the first invalid node of the mapping, 0 when it has none
FirstInvalid(mapping) ==
  LET I == {i \in 1..Len(mapping.items) : IsInvalid(mapping.items[i][2])}
  IN IF I = {} THEN 0 ELSE SetMin(I)

\* one level of deserialize that has the key of the level's first invalid node and
\* no unknown key: the keys before it are deserialized and, if none of them raises,
\* the schema error names the invalid key; what was written stays
ReachedAtLevel(mapping, model, doc, create) ==
  LET k == FirstInvalid(mapping)
  IN k # 0 /\ doc.t = "map" /\ DOMAIN doc.m \subseteq Keys(mapping)
       /\ mapping.items[k][1] \in DOMAIN doc.m =>
       LET before == Dict(SubSeq(mapping.items, 1, k - 1))
           part == MapV([key \in DOMAIN doc.m \cap Keys(before) |-> doc.m[key]])
           r == _deserialize_nested([heap |-> preHeap, trace |-> <<>>, exc |-> NoExc],
                                    model, part, before, create)
       IN /\ heap = r.heap
          /\ lastExc = IF r.exc = NoExc
                         THEN SchemaError("Invalid field for", mapping.items[k][1])
                       ELSE r.exc

\* C13: the schema error is raised when the walk comes to the invalid node and
\* not before.  serialize raises it, and returns nothing, exactly when it comes
\* to such a node, which is not the case for a node under a MapField whose
\* attribute is null; deserialize raises it for a document with the node's key
\* and no unknown key at that level when the keys before it raise nothing and,
\* under a MapField, the attribute holds a model
C13_InvalidReached ==
  /\ lastCall.op = "Serializer.serialize" =>
       LET met == InvalidOnWalk(lastCall.self.mapping, lastCall.model)
       IN IF met = <<>> THEN lastExc = NoExc /\ lastRet.t = "map"
          ELSE lastExc = SchemaError("Invalid field", Head(met)) /\ IsNone(lastRet)
  /\ lastCall.op = "Serializer.deserialize" =>
       ReachedAtLevel(lastCall.self.mapping, lastCall.model, lastCall.json_value,
                      lastCall.create)
  /\ lastCall.op = "MapField.deserialize" /\ lastCall.json_value.t = "map" =>
       IF IsNone(preHeap[lastCall.model][lastCall.self.model_attr])
         THEN lastExc = NullNested(lastCall.self.model_attr)
       ELSE ReachedAtLevel(lastCall.self.mapping.mapping,
                           preHeap[lastCall.model][lastCall.self.model_attr].o,
                           lastCall.json_value, lastCall.create)

\* the schema error for the key v after the field before it was written
C13_Witness ==
  /\ lastCall.op = "Serializer.deserialize"
  /\ DOMAIN lastCall.json_value.m = {"a", "v"}
  /\ lastExc = SchemaError("Invalid field for", "v")
  /\ <<"p", "n">> \in Changed

(***************************************************************************)
(* Properties of sequences of calls                                        *)
(***************************************************************************)
\* the attributes that readonly Fields bind and nothing else binds
ReadonlyOnly ==
  LET FB == Bindings(schema.mapping, "p")
      attr(S) == {<<b.model, b.self.model_attr>> : b \in S}
  IN attr({b \in FB : b.self.readonly})
       \ (attr({b \in FB : ~b.self.readonly})
            \cup {<<"p", mf.model_attr>> : mf \in MapFields(schema.mapping)})

\* C14: readonly wins over createonly.  No call, whatever its document and its
\* create flag, and whether it returns or raises, writes an attribute that only
\* readonly fields bind: over any sequence of calls its value never changes
C14_ReadonlyWins ==
  [][/\ \A b \in ReadonlyOnly : heap'[b[1]][b[2]] = heap[b[1]][b[2]]
     /\ \A i \in 1..Len(trace') :
          trace'[i].ev = "setattr" => <<trace'[i].obj, trace'[i].attr>> \notin ReadonlyOnly
    ]_vars

\* create is true and the field at a is readonly and createonly: another value
\* for it is refused and n keeps its value
C14_Witness ==
  /\ lastCall.op = "Serializer.deserialize"
  /\ lastCall.create
  /\ Node(schema.mapping, "a").readonly
  /\ Node(schema.mapping, "a").createonly
  /\ "a" \in DOMAIN lastCall.json_value.m
  /\ <<"p", "n">> \in ReadonlyOnly
  /\ lastExc = Immutable("n")
  /\ heap = preHeap

RECURSIVE BoundSeq(_, _)
\* the attributes the nodes of a mapping bind, one entry for each binding node
BoundSeq(mapping, model) ==
  LET RECURSIVE from(_)
      from(i) ==
        IF i > Len(mapping.items) THEN <<>>
        ELSE LET node == mapping.items[i][2]
                 here == CASE node.cls = "Field" -> << <<model, node.model_attr>> >>
                           [] node.cls = "MapField" ->
                                << <<model, node.model_attr>> >>
                                  \o BoundSeq(node.mapping.mapping, "q")
                           [] node.cls = "dict" -> BoundSeq(node, model)
                           [] OTHER -> <<>>
             IN here \o from(i + 1)
  IN from(1)

\* each attribute is bound by at most one field
SingleBound(mapping, model) ==
  LET bound == BoundSeq(mapping, model)
  IN \A i, j \in 1..Len(bound) : bound[i] = bound[j] => i = j

\* C15: under a schema that binds each attribute at most once, a document that
\* deserialize accepted is accepted again, with the same create flag, and the
\* second call leaves the model as the first one left it
C15_Idempotent ==
  /\ lastCall.op = "Serializer.deserialize"
  /\ lastExc = NoExc
  /\ SingleBound(lastCall.self.mapping, lastCall.model)
  => LET again == Serializer_deserialize(lastCall.self,
                                         [heap |-> heap, trace |-> <<>>, exc |-> NoExc],
                                         lastCall.model, lastCall.json_value,
                                         lastCall.create)
     IN again.exc = NoExc /\ again.heap = heap

\* a document that wrote the stripped string "b" to s and null to sub, ready to
\* be handed in again
C15_Witness ==
  /\ lastCall.op = "Serializer.deserialize"
  /\ lastExc = NoExc
  /\ SingleBound(lastCall.self.mapping, lastCall.model)
  /\ DOMAIN lastCall.json_value.m = {"g", "m"}
  /\ lastCall.json_value.m["g"] = MapV([b |-> Str(<<" ", "b">>)])
  /\ {<<"p", "s">>, <<"p", "sub">>} \subseteq Changed

====
